---- MODULE Spec2Model ----
\* Report-card engine of bigs-report-card-app: grade resolver (lookup_grade),
\* the page drawn by create_report_pdf_bytes_v2 (header, academic table with
\* its totals, skills table, comments, status block, images), the database
\* adapter (create_report_card_bytes) and the two batch generators (Class
\* Teacher dashboard, Principal dashboard).
\*
\* Numbers: a mark is held as an integer count of 1/Scale marks, so that the
\* half marks the marks editor accepts are exact. Percentages are exact
\* fractions [n, d] with d > 0. An absent value (Python None) is the empty
\* tuple and a present number n is the one-element tuple <<n>>.
EXTENDS Integers, Sequences, FiniteSets, TLC

VARIABLES
    r_pct,        \* grade resolver: percentage handed to lookup_grade
    r_rows,       \* grade resolver: band rows handed to lookup_grade
    r_label,      \* grade resolver: returned label, or Unset
    in_scores,    \* render: subjects_scores handed to create_report_card_bytes
    in_scales,    \* render: grade_scales handed to create_report_card_bytes
    in_name,      \* render: student_name
    in_grade,     \* render: student_grade, the grade label of the header
    in_skills,    \* render: skills_scores
    in_comments,  \* render: teacher_comments, a text or None
    in_preparer,  \* render: prepared_by
    in_assets,    \* render: what lies behind each image path handed in
    today,        \* the date datetime.now() gives
    report,       \* render: the rendered report, or NoReport
    files_later,  \* what lies behind the same image paths at a second render
    report_again, \* the report of a second render of the same context, or NoReport
    grades,       \* table grades: rows [id, name]
    students,     \* table students, in rowid order
    subjects,     \* table subjects, in rowid order
    subject_grade_config,  \* table subject_grade_config (UNIQUE subject_id, grade_id)
    marks,        \* table marks, in rowid order (UNIQUE student_id, subject_id)
    grade_scales, \* table grade_scales, in rowid order
    student_skills,   \* table student_skills (PRIMARY KEY student_id, skill_name)
    student_remarks,  \* table student_remarks (PRIMARY KEY student_id)
    user_assignments, \* table user_assignments: rows [username, grade_id, subject_id]
    users,        \* table users (PRIMARY KEY username)
    entered,      \* the (student, subject) pairs for which a score was ever typed in
    disk,         \* what lies behind the image paths the generators resolve
    user,         \* st.session_state.user, or NoUser when nobody is logged in
    attempt,      \* what the last Update Password click was given and did
    render_fails, \* ids of the students whose render raises
    jpg_fails,    \* ids of the students whose PDF to JPG conversion raises
    batch         \* what the last Generate Reports click left behind

resolverVars == <<r_pct, r_rows, r_label>>
pageVars == <<in_name, in_grade, in_skills, in_comments, in_preparer, in_assets, today>>
twiceVars == <<files_later, report_again>>
renderVars == <<in_scores, in_scales, pageVars, report, twiceVars>>
dbVars == <<grades, students, subjects, subject_grade_config, marks, grade_scales,
            student_skills, student_remarks, user_assignments, users, entered>>
envVars == <<disk, user, attempt, render_fails, jpg_fails>>
batchVars == <<dbVars, envVars, batch>>
vars == <<r_pct, r_rows, r_label, in_scores, in_scales,
          in_name, in_grade, in_skills, in_comments, in_preparer, in_assets, today, report,
          files_later, report_again,
          grades, students, subjects, subject_grade_config, marks, grade_scales,
          student_skills, student_remarks, user_assignments, users, entered, disk, user,
          attempt,
          render_fails, jpg_fails, batch>>

\* ---------------------------------------------------------------------
\* Python values
\* ---------------------------------------------------------------------
None == <<>>
Num(n) == <<n>>
Val(v) == v[1]
\* a text that may be None
Str(text) == <<text>>

\* ---------------------------------------------------------------------
\* auth.py: password hashing
\* ---------------------------------------------------------------------
\* pbkdf2_hmac of the password under the salt, kept as the pair it is a
\* function of
pbkdf2_hmac(password, salt) == <<password, salt>>
\* make_pbkdf2_hash draws the salt from os.urandom
make_pbkdf2_hash(password, salt) == [salt |-> salt, dk |-> pbkdf2_hmac(password, salt)]
verify_password(stored, provided) == pbkdf2_hmac(provided, stored.salt) = stored.dk
NoHash == [salt |-> 0, dk |-> <<>>]

Scale == 2
Whole(n) == n * Scale
PyInt(x) == x \div Scale

Get(row, key) == IF key \in DOMAIN row THEN row[key] ELSE None
GetD(row, key, default) == IF key \in DOMAIN row THEN row[key] ELSE default
Truthy(v) == v # None /\ v # Num(0)
PyOr(a, b) == IF Truthy(a) THEN a ELSE b
PyOrStr(a, b) == IF a # "" THEN a ELSE b

safe_float(x, default) == IF x = None THEN default ELSE Val(x)

Rat(n, d) == [n |-> n, d |-> d]
RatLE(a, b) == a.n * b.d <= b.n * a.d
RatEQ(a, b) == a.n * b.d = b.n * a.d
Pct(k) == Rat(k, 1)

Unset == "unset"
NoReport == [kind |-> "none"]

\* ---------------------------------------------------------------------
\* lookup_grade
\* ---------------------------------------------------------------------
Strip(s) == IF s = "A " THEN "A" ELSE s

band_label(g) == Strip(PyOrStr(GetD(g, "Grade", ""), GetD(g, "Score", "")))
band_min(g) == safe_float(GetD(g, "Min%", GetD(g, "Min", Num(0))), 0)
band_max(g) == safe_float(GetD(g, "Max%", GetD(g, "Max", Num(100))), 0)

band_matches_exclusive(pct, g) ==
    RatLE(Pct(band_min(g)), pct) /\ RatLE(pct, Pct(band_max(g)))
        /\ ~RatEQ(pct, Pct(band_max(g)))
band_matches(pct, g) ==
    RatLE(Pct(band_min(g)), pct) /\ RatLE(pct, Pct(band_max(g)))

RECURSIVE lookup_from(_, _, _)
lookup_from(pct, rows, i) ==
    IF i > Len(rows) THEN ""
    ELSE IF band_matches(pct, rows[i]) THEN band_label(rows[i])
    ELSE lookup_from(pct, rows, i + 1)

RECURSIVE lookup_last(_, _, _)
lookup_last(pct, rows, i) ==
    IF i < 1 THEN ""
    ELSE IF band_matches(pct, rows[i]) THEN band_label(rows[i])
    ELSE lookup_last(pct, rows, i - 1)

lookup_grade_last(pct, grade_scale_rows) ==
    lookup_last(pct, grade_scale_rows, Len(grade_scale_rows))
lookup_grade_nomatch(pct, grade_scale_rows) ==
    IF Len(grade_scale_rows) = 0 THEN ""
    ELSE IF lookup_from(pct, grade_scale_rows, 1) = ""
         THEN band_label(grade_scale_rows[Len(grade_scale_rows)])
         ELSE lookup_from(pct, grade_scale_rows, 1)
lookup_grade(pct, grade_scale_rows) ==
    IF Len(grade_scale_rows) = 0 THEN ""
    ELSE lookup_from(pct, grade_scale_rows, 1)

\* ---------------------------------------------------------------------
\* create_report_pdf_bytes_v2: totals, status and the academic table
\* ---------------------------------------------------------------------
row_skipped_te_only(r) == Get(r, "TE") = None
row_skipped(r) == Get(r, "TE") = None /\ Get(r, "CE") = None

RECURSIVE totals_from(_, _, _, _)
totals_from(rows, i, total_scored, total_full) ==
    IF i > Len(rows) THEN [scored |-> total_scored, full |-> total_full]
    ELSE IF row_skipped(rows[i]) THEN totals_from(rows, i + 1, total_scored, total_full)
    ELSE LET te == safe_float(Get(rows[i], "TE"), 0)
             ce == safe_float(Get(rows[i], "CE"), 0)
             full == safe_float(GetD(rows[i], "Full_Marks", Num(Whole(100))), 0)
         IN totals_from(rows, i + 1, total_scored + (te + ce), total_full + full)

percentage_unguarded(scored, full) == IF full # 0 THEN Rat(scored * 100, full) ELSE Rat(100, 1)
percentage(scored, full) == IF full # 0 THEN Rat(scored * 100, full) ELSE Rat(0, 1)

status_strict(overall_pct) == IF RatLE(Pct(40), overall_pct) /\ ~RatEQ(Pct(40), overall_pct)
                              THEN "PASSED" ELSE "FAILED"
status_text(overall_pct) == IF RatLE(Pct(40), overall_pct) THEN "PASSED" ELSE "FAILED"

\* table cells: a text, str() of an integer, or a percentage formatted
\* with one decimal (held as its number of tenths)
TextCell(s) == [text |-> s]
IntCell(n) == [int |-> n]
Dash == TextCell("-")
Blank == TextCell("")

\* f"{pct:.1f}": the nearest number of tenths, an exact tie going to the even one
Fmt1(p) ==
    LET q == (p.n * 10) \div p.d
        rem == (p.n * 10) % p.d
    IN IF 2 * rem > p.d THEN q + 1
       ELSE IF 2 * rem < p.d THEN q
       ELSE IF q % 2 = 0 THEN q ELSE q + 1
PctCell(p) == [tenths |-> Fmt1(p)]

\* the Full Marks cell of a row without marks
full_str_shown(r) == IntCell(PyInt(safe_float(GetD(r, "Full_Marks", Num(Whole(100))), 0)))
full_str(r) == Dash

table_row(r, grade_scale_rows) ==
    IF row_skipped(r)
    THEN [subject |-> r["Subject"], graded |-> FALSE, te |-> 0, ce |-> 0,
          scored |-> 0, full |-> 0, pct |-> Rat(0, 1), grade |-> "-",
          cells |-> [te |-> Dash, ce |-> Dash, scored |-> Dash, full |-> full_str(r),
                     pct |-> Dash, grade |-> Dash,
                     remarks |-> TextCell(GetD(r, "Remarks", ""))]]
    ELSE LET te == PyInt(safe_float(Get(r, "TE"), 0))
             ce == PyInt(safe_float(Get(r, "CE"), 0))
             full == PyInt(safe_float(GetD(r, "Full_Marks", Num(Whole(100))), 0))
             scored == te + ce
             pct == percentage(scored, full)
             grade_txt == lookup_grade(pct, grade_scale_rows)
         IN [subject |-> r["Subject"], graded |-> TRUE, te |-> te, ce |-> ce,
             scored |-> scored, full |-> full, pct |-> pct,
             grade |-> grade_txt,
             cells |-> [te |-> IntCell(te), ce |-> IntCell(ce), scored |-> IntCell(scored),
                        full |-> IntCell(full), pct |-> PctCell(pct),
                        grade |-> TextCell(grade_txt),
                        remarks |-> TextCell(GetD(r, "Remarks", ""))]]

total_row(total_scored, total_full, overall_pct) ==
    [subject |-> "TOTAL", te |-> Blank, ce |-> Blank,
     scored |-> IntCell(PyInt(total_scored)), full |-> IntCell(PyInt(total_full)),
     pct |-> PctCell(overall_pct), grade |-> Blank, remarks |-> Blank]

\* str.upper() on the texts in use
Upper(text) ==
    CASE text = "State" -> "STATE"
      [] text = "Aliya Khan" -> "ALIYA KHAN"
      [] text = "Bilal" -> "BILAL"
      [] text = "Chand" -> "CHAND"
      [] text = "Dawud" -> "DAWUD"
      [] text = "Ehsan" -> "EHSAN"
      [] OTHER -> text

\* re.search(r"(\d+)", grade_text): None, or the stripped text before the
\* first run of digits, the run, and the stripped text after it
digits_match(grade_text) ==
    CASE grade_text = "5A" -> <<"", "5", "A">>
      [] grade_text = "6B" -> <<"", "6", "B">>
      [] grade_text = "Grade 10" -> <<"Grade", "10", "">>
      [] grade_text = "Grade 10State" -> <<"Grade", "10", "State">>
      [] OTHER -> None

Drawn(text, font) == [text |-> text, font |-> font]

\* the strings drawn for the grade in the header, left to right
header_grade(grade_label) ==
    LET grade_text == PyOrStr(grade_label, "")
        m == digits_match(grade_text)
    IN IF m # None
       THEN IF m[3] # ""
            THEN <<Drawn(m[1], "Helvetica"), Drawn(m[2], "Helvetica-Bold"),
                   Drawn("-" \o Upper(m[3]), "Helvetica")>>
            ELSE <<>>
       ELSE <<Drawn(grade_text, "Helvetica")>>

\* one row of the skills table (remarks_scale_rows is always empty, so the
\* remark is never overridden)
skill_row(sk) ==
    [skill |-> GetD(sk, "Skill", ""), score |-> Get(sk, "Score"),
     remark |-> PyOrStr(GetD(sk, "Remark", ""), "")]

\* str.splitlines() on the comment texts in use
splitlines(text) ==
    IF text = "" THEN <<>>
    ELSE IF text = "Good progress." THEN <<"Good progress.">>
    ELSE IF text = "Good progress.\nKeep it up.\n" THEN <<"Good progress.", "Keep it up.">>
    ELSE IF text = "Good progress.\nKeep it up.\nReads well.\nPolite.\nPunctual."
         THEN <<"Good progress.", "Keep it up.", "Reads well.", "Polite.", "Punctual.">>
    ELSE <<text>>

\* str(comments or "").splitlines()[:4]
comment_lines_uncut(comments) ==
    splitlines(IF comments = None THEN "" ELSE Val(comments))
comment_lines(comments) ==
    LET lines == splitlines(IF comments = None THEN "" ELSE Val(comments))
    IN IF Len(lines) <= 4 THEN lines ELSE SubSeq(lines, 1, 4)

\* what lies behind an image path: "none" (no path given), "missing" (no
\* such file), "corrupt" (a file ImageReader cannot read) or "ok"
AssetStates == {"none", "missing", "corrupt", "ok"}
ImageReader(asset) == IF asset = "ok" THEN "image" ELSE "raise"

\* if path and Path(path).exists(): try: drawImage(ImageReader(path)) except: pass
draw_asset_unguarded(asset) ==
    IF asset = "none" \/ asset = "missing" THEN "omitted"
    ELSE IF ImageReader(asset) = "raise" THEN "raise" ELSE "drawn"
draw_asset(asset) ==
    IF asset = "none" \/ asset = "missing" THEN "omitted"
    ELSE IF ImageReader(asset) = "raise" THEN "omitted" ELSE "drawn"

signature_labels == <<"Principal", "Class Teacher", "Parent">>

create_report_pdf_bytes_v2(student_name, grade_label, academic_rows, skills_rows, comments, parent_sig_path, grade_scale_rows, frame_image, prepared_on, principal_sign_path, class_teacher_sign_path, now) ==
    LET t == totals_from(academic_rows, 1, 0, 0)
        overall_pct == percentage(t.scored, t.full)
        frame == draw_asset(frame_image)
        sig_paths == <<principal_sign_path, class_teacher_sign_path, parent_sig_path>>
        sigs == [i \in 1..3 |-> draw_asset(sig_paths[i])]
    IN IF frame = "raise" \/ \E i \in 1..3 : sigs[i] = "raise"
       THEN [kind |-> "error"]
       ELSE
       [kind |-> "pdf",
        frame |-> frame = "drawn",
        header_name |-> Upper(student_name),
        header_grade |-> header_grade(grade_label),
        rows |-> [i \in 1..Len(academic_rows) |-> table_row(academic_rows[i], grade_scale_rows)],
        total_scored |-> t.scored,
        total_full |-> t.full,
        overall_pct |-> overall_pct,
        status |-> status_text(overall_pct),
        total |-> total_row(t.scored, t.full, overall_pct),
        skills |-> [i \in 1..Len(skills_rows) |-> skill_row(skills_rows[i])],
        comments |-> comment_lines(comments),
        footer |-> <<[label |-> "Status", value |-> status_text(overall_pct)],
                     [label |-> "Prepared on", value |-> PyOrStr(prepared_on, now)]>>,
        signatures |-> [i \in 1..3 |-> [label |-> signature_labels[i],
                                        image |-> sigs[i] = "drawn"]]]

\* ---------------------------------------------------------------------
\* create_report_card_bytes: adapter from the callers' record shapes
\* ---------------------------------------------------------------------
mapped_row(row) ==
    LET subj == PyOrStr(GetD(row, "name", ""), GetD(row, "Subject", ""))
        te == IF "te_score" \in DOMAIN row THEN row["te_score"] ELSE Get(row, "TE")
        ce == IF "ce_score" \in DOMAIN row THEN row["ce_score"] ELSE Get(row, "CE")
        te_max == safe_float(PyOr(Get(row, "te_max_marks"), Get(row, "TE_Full_Marks")), Whole(100))
        ce_max == safe_float(PyOr(Get(row, "ce_max_marks"), Get(row, "CE_Full_Marks")), 0)
        full == te_max + ce_max
    IN [Subject |-> subj, TE |-> te, CE |-> ce, Full_Marks |-> Num(full),
        Remarks |-> PyOrStr(GetD(row, "Remarks", ""), PyOrStr(GetD(row, "remarks", ""), ""))]

\* int(float(score)) then the fixed mapping; anything else, or a score that
\* float() rejects, gives ""
get_skill_remark(score) ==
    IF score = None THEN ""
    ELSE LET s_int == PyInt(Val(score))
         IN CASE s_int = 1 -> "BEGINNING"
              [] s_int = 2 -> "PROGRESSING"
              [] s_int = 3 -> "ACCOMPLISHED"
              [] s_int = 4 -> "OUTSTANDING"
              [] OTHER -> ""

\* an absent remark is held as ""
mapped_skill_resolver_only(sk) ==
    LET score == PyOr(Get(sk, "score"), Get(sk, "Score"))
    IN [Skill |-> PyOrStr(GetD(sk, "skill_name", ""), GetD(sk, "Skill", "")),
        Score |-> score,
        Remark |-> get_skill_remark(score)]
mapped_skill(sk) ==
    LET score == PyOr(Get(sk, "score"), Get(sk, "Score"))
        remark == PyOrStr(GetD(sk, "remark", ""), GetD(sk, "Remark", ""))
    IN [Skill |-> PyOrStr(GetD(sk, "skill_name", ""), GetD(sk, "Skill", "")),
        Score |-> score,
        Remark |-> IF remark = "" THEN get_skill_remark(score) ELSE remark]

\* background_img_path if given, else the default frame if that file exists
final_bg_given_only(background_img_path, default_frame) == background_img_path
final_bg(background_img_path, default_frame) ==
    IF background_img_path # "none" THEN background_img_path
    ELSE IF default_frame # "missing" THEN default_frame
    ELSE "none"

create_report_card_bytes(student_name, student_grade, subjects_scores, skills_scores, teacher_comments, prepared_by, scales, principal_sign_path, parent_sign_path, class_teacher_sign_path, background_img_path, default_frame, now) ==
    create_report_pdf_bytes_v2(
        student_name, student_grade,
        [i \in 1..Len(subjects_scores) |-> mapped_row(subjects_scores[i])],
        [i \in 1..Len(skills_scores) |-> mapped_skill(skills_scores[i])],
        teacher_comments, parent_sign_path, scales,
        final_bg(background_img_path, default_frame),
        "", principal_sign_path, class_teacher_sign_path, now)

\* ---------------------------------------------------------------------
\* SQL and text helpers used by the generators' queries
\* ---------------------------------------------------------------------
\* rows of s in ascending order of their keys, ties in table order (ORDER BY)
OrderBy(s, keys) ==
    LET n == Len(s)
        before(i, j) == keys[i] < keys[j] \/ (keys[i] = keys[j] /\ i < j)
        pos(i) == 1 + Cardinality({j \in 1..n : before(j, i)})
    IN [k \in 1..n |-> s[CHOOSE i \in 1..n : pos(i) = k]]

\* binary collation of the names in use
NameOrder == <<"5A", "6B", "ART", "Aliya Khan", "Bilal", "Chand", "Dawud", "Ehsan", "MATHS", "MATHS ">>
NameRank(name) == CHOOSE k \in 1..Len(NameOrder) : NameOrder[k] = name

\* UPPER(TRIM(name)) on subject names
UpperTrim(name) ==
    IF name \in {"maths", " MATHS", "MATHS "} THEN "MATHS"
    ELSE IF name \in {"art", " ART", "ART "} THEN "ART"
    ELSE name

\* str.replace(" ", "_")
Underscored(text) == IF text = "Aliya Khan" THEN "Aliya_Khan" ELSE text

Coalesce(v, default) == IF v = None THEN default ELSE Val(v)

RECURSIVE Flatten(_)
Flatten(ss) == IF ss = <<>> THEN <<>> ELSE Head(ss) \o Flatten(Tail(ss))

\* marks m JOIN subjects s_actual ON m.subject_id = s_actual.id
marks_linked ==
    Flatten([k \in 1..Len(marks) |->
        LET m == marks[k]
            named == SelectSeq(subjects, LAMBDA sub : sub.id = m.subject_id)
        IN [j \in 1..Len(named) |->
               [te_score |-> m.te_score, ce_score |-> m.ce_score, remarks |-> m.remarks,
                subj_name |-> named[j].name, student_id |-> m.student_id]]])

\* ---------------------------------------------------------------------
\* Class Teacher dashboard, Generate Reports
\* ---------------------------------------------------------------------
\* the grades offered in "Select Class / Grade": those of the user's assignments
ct_grades(username) ==
    {g \in grades : \E ua \in user_assignments : ua.username = username /\ ua.grade_id = g.id}

\* SELECT 1 FROM user_assignments WHERE username=? AND grade_id=? AND subject_id=-1
is_ct(username, grade_id) ==
    \E ua \in user_assignments :
        ua.username = username /\ ua.grade_id = grade_id /\ ua.subject_id = -1

ct_students(grade_id) ==
    LET rows == SelectSeq(students, LAMBDA st : st.grade_id = grade_id)
    IN OrderBy(rows, [k \in 1..Len(rows) |-> NameRank(rows[k].name)])

ct_grade_scales ==
    [k \in 1..Len(grade_scales) |->
        [Min |-> grade_scales[k].min_pct, Max |-> grade_scales[k].max_pct,
         Grade |-> grade_scales[k].grade_label]]

\* q_marks: configured subjects of the grade LEFT JOIN the student's marks by name
ct_q_marks(sid, grade_id) ==
    LET configured ==
            Flatten([k \in 1..Len(subjects) |->
                LET sub == subjects[k]
                    scs == {sc \in subject_grade_config :
                                sc.subject_id = sub.id /\ sc.grade_id = grade_id}
                IN IF scs = {} THEN <<>>
                   ELSE LET sc == CHOOSE x \in scs : TRUE
                        IN <<[name |-> sub.name, te_max_marks |-> sc.te_max_marks,
                              ce_max_marks |-> sc.ce_max_marks]>>])
        ordered == OrderBy(configured, [k \in 1..Len(configured) |-> NameRank(configured[k].name)])
        joined(sub) ==
            LET linked == SelectSeq(marks_linked,
                            LAMBDA m : UpperTrim(sub.name) = UpperTrim(m.subj_name)
                                       /\ m.student_id = sid)
                t_max == Coalesce(sub.te_max_marks, Whole(100))
                c_max == Coalesce(sub.ce_max_marks, 0)
            IN IF linked = <<>>
               THEN <<[subject |-> sub.name, te_score |-> None, ce_score |-> None,
                       remarks |-> "", t_max |-> t_max, c_max |-> c_max]>>
               ELSE [j \in 1..Len(linked) |->
                       [subject |-> sub.name, te_score |-> linked[j].te_score,
                        ce_score |-> linked[j].ce_score, remarks |-> linked[j].remarks,
                        t_max |-> t_max, c_max |-> c_max]]
    IN Flatten([k \in 1..Len(ordered) |-> joined(ordered[k])])

ct_marks_data(sid, grade_id) ==
    LET m_rows == ct_q_marks(sid, grade_id)
    IN [k \in 1..Len(m_rows) |->
           [Subject |-> m_rows[k].subject, TE |-> m_rows[k].te_score,
            CE |-> m_rows[k].ce_score,
            Full_Marks |-> Num(m_rows[k].t_max + m_rows[k].c_max),
            Remarks |-> m_rows[k].remarks]]

\* ---------------------------------------------------------------------
\* Principal dashboard, Generate Reports
\* ---------------------------------------------------------------------
principal_grade_students(grade_id) ==
    LET rows == SelectSeq(students, LAMBDA st : st.grade_id = grade_id)
    IN OrderBy(rows, [k \in 1..Len(rows) |-> NameRank(rows[k].name)])

grade_name(grade_id) == (CHOOSE g \in grades : g.id = grade_id).name

\* q_all: students JOIN grades ORDER BY g.name, s.name
principal_all_students ==
    LET joined == SelectSeq(students, LAMBDA st : \E g \in grades : g.id = st.grade_id)
    IN OrderBy(joined, [k \in 1..Len(joined) |->
                           NameRank(grade_name(joined[k].grade_id)) * (Len(NameOrder) + 1)
                           + NameRank(joined[k].name)])

\* SELECT * FROM grade_scales
principal_grade_scales == grade_scales

\* q_marks: marks m JOIN subjects sub WHERE m.student_id = ?
\* (a NULL score is handed on as an absent value; a record the renderer
\* cannot digest is covered by render_fails)
principal_marks_data(sid) ==
    Flatten([k \in 1..Len(marks) |->
        LET m == marks[k]
            named == SelectSeq(subjects, LAMBDA sub : sub.id = m.subject_id)
        IN IF m.student_id # sid THEN <<>>
           ELSE [j \in 1..Len(named) |->
                   [name |-> named[j].name, te_score |-> m.te_score, ce_score |-> m.ce_score,
                    te_max_marks |-> named[j].te_max_marks,
                    ce_max_marks |-> named[j].ce_max_marks, remarks |-> m.remarks]]])

\* ---------------------------------------------------------------------
\* What both generators fetch for a student besides the marks
\* ---------------------------------------------------------------------
\* q_skills: SELECT skill_name, score FROM student_skills WHERE student_id=?
skills_data(sid) ==
    LET mine == SelectSeq(student_skills, LAMBDA sk : sk.student_id = sid)
    IN [k \in 1..Len(mine) |-> [skill_name |-> mine[k].skill_name, score |-> mine[k].score]]

\* rem_rec[0] if rem_rec else ""
student_remark(sid) ==
    LET mine == SelectSeq(student_remarks, LAMBDA rr : rr.student_id = sid)
    IN IF mine = <<>> THEN Str("") ELSE mine[1].remark

\* "path" if os.path.exists("path") else None
path_if_exists(asset) == IF asset = "missing" THEN "none" ELSE asset

preparer(gen) == IF gen = "class_teacher" THEN user.full_name ELSE "Principal"

\* the Principal dashboard passes no background_img_path
background_for(gen) == IF gen = "class_teacher" THEN path_if_exists(disk.background) ELSE "none"

student_grade_name(gen, stud, grade_id) ==
    IF gen = "class_teacher" THEN grade_name(grade_id) ELSE grade_name(stud.grade_id)

\* ---------------------------------------------------------------------
\* The per-student loop of both generators
\* ---------------------------------------------------------------------
Formats == {"PDF", "JPG"}

NewRun == [zip |-> <<>>, has_files |-> FALSE, reports |-> <<>>, raised |-> FALSE]

entry_base(gen, stud) ==
    IF gen = "class_teacher"
    THEN <<Underscored(stud.name), Underscored(stud.admission_no)>>
    ELSE <<Underscored(grade_name(stud.grade_id)), Underscored(stud.name)>>

student_marks_data(gen, stud, grade_id) ==
    IF gen = "class_teacher" THEN ct_marks_data(stud.id, grade_id)
    ELSE principal_marks_data(stud.id)

student_report(gen, scales, grade_id, stud) ==
    create_report_card_bytes(
        stud.name, student_grade_name(gen, stud, grade_id),
        student_marks_data(gen, stud, grade_id), skills_data(stud.id),
        student_remark(stud.id), preparer(gen), scales,
        path_if_exists(disk.principal_sign), disk.parent_sign, disk.class_teacher_sign,
        background_for(gen), disk.default_frame, today)

\* one pass of the loop body for stud; an exception of
\* create_report_card_bytes is caught by nothing and ends the loop;
\* an exception of pdf_to_jpg_bytes is swallowed by the bare except
process_student_jpg_unguarded(gen, fmt, scales, grade_id, stud, run) ==
    LET pdf == student_report(gen, scales, grade_id, stud)
    IN IF stud.id \in render_fails \/ pdf.kind = "error" THEN [run EXCEPT !.raised = TRUE]
       ELSE LET base == entry_base(gen, stud)
                with_pdf == IF "PDF" \in fmt
                            THEN Append(run.zip, [base |-> base, ext |-> "pdf", sid |-> stud.id])
                            ELSE run.zip
            IN IF "JPG" \in fmt /\ stud.id \in jpg_fails
               THEN [run EXCEPT !.zip = with_pdf, !.raised = TRUE]
               ELSE [zip |-> IF "JPG" \in fmt
                             THEN Append(with_pdf, [base |-> base, ext |-> "jpg", sid |-> stud.id])
                             ELSE with_pdf,
                     has_files |-> TRUE,
                     reports |-> Append(run.reports, [sid |-> stud.id, grade_id |-> stud.grade_id, pdf |-> pdf]),
                     raised |-> FALSE]
process_student(gen, fmt, scales, grade_id, stud, run) ==
    LET pdf == student_report(gen, scales, grade_id, stud)
    IN IF stud.id \in render_fails \/ pdf.kind = "error" THEN [run EXCEPT !.raised = TRUE]
       ELSE LET base == entry_base(gen, stud)
                with_pdf == IF "PDF" \in fmt
                            THEN Append(run.zip, [base |-> base, ext |-> "pdf", sid |-> stud.id])
                            ELSE run.zip
                with_jpg == IF "JPG" \in fmt /\ stud.id \notin jpg_fails
                            THEN Append(with_pdf, [base |-> base, ext |-> "jpg", sid |-> stud.id])
                            ELSE with_pdf
            IN [zip |-> with_jpg, has_files |-> TRUE,
                reports |-> Append(run.reports, [sid |-> stud.id, grade_id |-> stud.grade_id, pdf |-> pdf]),
                raised |-> FALSE]

RECURSIVE run_loop(_, _, _, _, _, _, _)
run_loop(gen, fmt, scales, grade_id, targets, i, run) ==
    IF i > Len(targets) \/ run.raised THEN run
    ELSE run_loop(gen, fmt, scales, grade_id, targets, i + 1,
                  process_student(gen, fmt, scales, grade_id, targets[i], run))

\* what the click leaves behind: the message shown, the archive offered
finish(gen, fmt, targets, n_selected, run) ==
    [gen |-> gen, fmt |-> fmt, targets |-> targets,
     outcome |-> IF run.raised THEN "exception"
                 ELSE IF run.has_files THEN "success" ELSE "none_generated",
     offered |-> ~run.raised /\ run.has_files,
     zip |-> run.zip,
     reports |-> run.reports,
     reported |-> n_selected]

rejected(gen, fmt, targets) ==
    [gen |-> gen, fmt |-> fmt, targets |-> targets, outcome |-> "validation",
     offered |-> FALSE, zip |-> <<>>, reports |-> <<>>, reported |-> 0]

NoBatch ==
    [gen |-> "none", fmt |-> {}, targets |-> <<>>, outcome |-> "idle",
     offered |-> FALSE, zip |-> <<>>, reports |-> <<>>, reported |-> 0]

\* Class Teacher: the Generate Reports button
\* (tab3 shows a notice when is_ct is false and then goes on all the same)
CTGenerate ==
    /\ batch.outcome = "idle"
    /\ \E g \in ct_grades(user.username), fmt \in SUBSET Formats :
        LET s_df == ct_students(g.id)
        IN /\ s_df # <<>>
           /\ \E sel_students \in SUBSET {s_df[k].name : k \in 1..Len(s_df)} :
                 IF sel_students = {} \/ fmt = {}
                 THEN batch' = rejected("class_teacher", fmt,
                                        SelectSeq(s_df, LAMBDA st : st.name \in sel_students))
                 ELSE LET target_df == SelectSeq(s_df, LAMBDA st : st.name \in sel_students)
                      IN batch' = finish("class_teacher", fmt, target_df,
                                         Cardinality(sel_students),
                                         run_loop("class_teacher", fmt, ct_grade_scales, g.id,
                                                  target_df, 1, NewRun))
    /\ UNCHANGED <<dbVars, envVars, resolverVars, renderVars>>

\* the rest of the Principal handler once target_students is known
principal_click_any_format(fmt, target_students) ==
    IF target_students = <<>>
    THEN rejected("principal", fmt, target_students)
    ELSE finish("principal", fmt, target_students, Len(target_students),
                run_loop("principal", fmt, principal_grade_scales, 0,
                         target_students, 1, NewRun))
principal_click(fmt, target_students) ==
    IF target_students = <<>> \/ fmt = {}
    THEN rejected("principal", fmt, target_students)
    ELSE finish("principal", fmt, target_students, Len(target_students),
                run_loop("principal", fmt, principal_grade_scales, 0,
                         target_students, 1, NewRun))

\* Principal: the Generate Reports button, scope "Single Grade / Specific Students"
PrincipalGenerateGrade ==
    /\ batch.outcome = "idle"
    /\ \E fmt \in SUBSET Formats, g \in grades :
        LET students_df == principal_grade_students(g.id)
        IN \E sel_students \in SUBSET {students_df[k].name : k \in 1..Len(students_df)} :
            batch' = principal_click(fmt,
                        IF sel_students # {}
                        THEN SelectSeq(students_df, LAMBDA st : st.name \in sel_students)
                        ELSE students_df)
    /\ UNCHANGED <<dbVars, envVars, resolverVars, renderVars>>

\* Principal: the Generate Reports button, scope "All Grades (Bulk)"
PrincipalGenerateAll ==
    /\ batch.outcome = "idle"
    /\ \E fmt \in SUBSET Formats, confirm \in BOOLEAN :
        batch' = principal_click(fmt, IF confirm THEN principal_all_students ELSE <<>>)
    /\ UNCHANGED <<dbVars, envVars, resolverVars, renderVars>>

\* ---------------------------------------------------------------------
\* Bounds and input domains
\* ---------------------------------------------------------------------
MaxBands == 2
MaxRows == 2

SeqsUpTo(S, n) == UNION {[1..k -> S] : k \in 0..n}

Labels == {"A", "B", "A "}
BandRanges == {<<50, 100>>, <<0, 49>>, <<40, 60>>}
BandRows == {[Min |-> Num(rg[1]), Max |-> Num(rg[2]), Grade |-> l] : rg \in BandRanges, l \in Labels}
PctInputs == {Rat(0, 1), Rat(49, 1), Rat(499, 10), Rat(50, 1), Rat(100, 1), Rat(101, 1)}

BandA == [Min |-> Num(50), Max |-> Num(100), Grade |-> "A"]
BandB == [Min |-> Num(0), Max |-> Num(49), Grade |-> "B"]
ScaleLists == {<<>>, <<BandA>>, <<BandA, BandB>>}

\* te/ce scores the marks table can hold (REAL, nullable), in 1/Scale marks
TeValues == {None, Num(0), Num(Whole(45)), Num(Whole(45) + 1)}
CeValues == {None, Num(Whole(20)), Num(Whole(20) + 1)}
\* subject, te_max, ce_max
SubjectLimits == {<<"MATHS", Whole(70), Whole(30)>>, <<"ART", Whole(50), 0>>}

DbRecord(lim, te, ce) ==
    [name |-> lim[1], te_score |-> te, ce_score |-> ce,
     te_max_marks |-> Num(lim[2]), ce_max_marks |-> Num(lim[3]), remarks |-> ""]
CanonicalRecord(lim, te, ce) ==
    [Subject |-> lim[1], TE |-> te, CE |-> ce,
     Full_Marks |-> Num(lim[2] + lim[3]), Remarks |-> ""]
DbRecords == {DbRecord(lim, te, ce) : lim \in SubjectLimits, te \in TeValues, ce \in CeValues}
CanonicalRecords == {CanonicalRecord(lim, te, ce) : lim \in SubjectLimits, te \in TeValues, ce \in CeValues}
\* a caller passes a list of one shape
ScoreLists == SeqsUpTo(DbRecords, MaxRows) \cup SeqsUpTo(CanonicalRecords, MaxRows)

\* the end-to-end example: MATHS 45 + 20 of 70 + 30, ART without marks
ExampleMarks ==
    <<DbRecord(<<"MATHS", Whole(70), Whole(30)>>, Num(Whole(45)), Num(Whole(20))),
      DbRecord(<<"ART", Whole(50), 0>>, None, None)>>

\* skill records: the catalog, the scores a caller can hand in (1/Scale
\* units) and the two record shapes the adapter accepts
MaxSkills == 2
FIXED_SKILLS ==
    {"Remembering", "Understanding", "Applying", "Regularity & Punctuality",
     "Neatness & Orderliness"}
SkillNames == {"Remembering", "Applying"}
SkillScores == {None} \cup {Num(Whole(k)) : k \in 0..5}
SkillRemarks == {"", "Good"}
DbSkill(name, score) == [skill_name |-> name, score |-> score]
CanonicalSkill(name, score, remark) == [Skill |-> name, Score |-> score, Remark |-> remark]
SkillRecords ==
    {DbSkill(n, sc) : n \in SkillNames, sc \in SkillScores}
        \cup {CanonicalSkill(n, sc, rm) : n \in SkillNames, sc \in SkillScores, rm \in SkillRemarks}
SkillLists == SeqsUpTo(SkillRecords, MaxSkills)

\* page inputs: grade labels without digits, with digits and a suffix, and
\* with digits and nothing after them; preparer names; image assets
GradeLabels == {"Nursery", "5A", "6B", "Grade 10", "Grade 10State"}
Preparers == {"Sara Ali", "Principal"}
CommentTexts ==
    {None, Str(""), Str("Good progress.\nKeep it up.\n"),
     Str("Good progress.\nKeep it up.\nReads well.\nPolite.\nPunctual.")}
AssetChoices ==
    [background : AssetStates, default_frame : AssetStates \ {"none"},
     principal : AssetStates, class_teacher : AssetStates, parent : AssetStates]

\* the school: two grades, MaxStudents students (the first three in grade 1)
MaxStudents == 3
MaxScales == 2

GradeRows == {[id |-> 1, name |-> "5A"], [id |-> 2, name |-> "6B"]}
\* students 2 and 3 are namesakes: students.name is not UNIQUE, admission_no is
StudentNames == <<"Aliya Khan", "Bilal", "Bilal", "Dawud", "Ehsan">>
AdmissionNos == <<"B5A1", "B5A2", "B5A3", "B6B1", "B6B2">>
StudentRows ==
    [i \in 1..MaxStudents |->
        [id |-> i, name |-> StudentNames[i], admission_no |-> AdmissionNos[i],
         grade_id |-> IF i <= 3 THEN 1 ELSE 2]]
StudentIds == 1..MaxStudents

\* Subject Management inserts every subject with the limits (100, 0) under
\* the name s_name.upper(), untrimmed: "MATHS " was added after "MATHS"
SubjectRows ==
    <<[id |-> 1, name |-> "MATHS", te_max_marks |-> Num(Whole(100)), ce_max_marks |-> Num(0)],
      [id |-> 2, name |-> "ART", te_max_marks |-> Num(Whole(100)), ce_max_marks |-> Num(0)],
      [id |-> 3, name |-> "MATHS ", te_max_marks |-> Num(Whole(100)), ce_max_marks |-> Num(0)]>>

Config(subject_id, grade_id, te_max, ce_max) ==
    [subject_id |-> subject_id, grade_id |-> grade_id,
     te_max_marks |-> Num(te_max), ce_max_marks |-> Num(ce_max)]
ConfigChoices ==
    {{Config(1, 1, Whole(70), Whole(30)), Config(2, 1, Whole(50), 0)},
     {Config(1, 1, Whole(50), Whole(30)), Config(2, 1, Whole(50), 0), Config(1, 2, Whole(100), 0)},
     {Config(1, 1, 0, Whole(50))}}

Mark(student_id, subject_id, te, ce) ==
    [student_id |-> student_id, subject_id |-> subject_id,
     te_score |-> te, ce_score |-> ce, remarks |-> ""]
MarksChoices ==
    {<<>>,
     <<Mark(1, 1, Num(Whole(45)), Num(Whole(20))), Mark(1, 2, None, None),
       Mark(2, 1, Num(Whole(28)), Num(Whole(12))),
       Mark(3, 1, Num(Whole(45) + 1), Num(Whole(20) + 1))>>,
     <<Mark(1, 2, Num(Whole(45)), None), Mark(2, 1, None, Num(Whole(20)))>>,
     <<Mark(1, 1, Num(Whole(45)), Num(Whole(20))), Mark(1, 3, Num(Whole(40)), Num(Whole(10))),
       Mark(2, 3, Num(Whole(30)), None)>>}

\* a score typed into the marks editor
EnteredScores == {Num(Whole(10))}

ScaleRow(label, mn, mx, grade_id) ==
    [grade_label |-> label, min_pct |-> Num(mn), max_pct |-> Num(mx), grade_id |-> grade_id]
ScaleRowChoices ==
    {ScaleRow("A", 50, 100, None), ScaleRow("B", 0, 49, None),
     ScaleRow("C", 0, 100, Num(1)), ScaleRow("D", 0, 100, Num(2))}
WithIds(rows) ==
    [k \in 1..Len(rows) |->
        [id |-> k, grade_label |-> rows[k].grade_label, min_pct |-> rows[k].min_pct,
         max_pct |-> rows[k].max_pct, grade_id |-> rows[k].grade_id]]
\* skills and remarks as the Class Teacher dashboard stores them
SkillsTable ==
    <<[student_id |-> 1, skill_name |-> "Remembering", score |-> Num(Whole(4))],
      [student_id |-> 1, skill_name |-> "Applying", score |-> Num(Whole(3))],
      [student_id |-> 2, skill_name |-> "Remembering", score |-> Num(Whole(1))]>>
RemarksTable == <<[student_id |-> 1, remark |-> Str("Good progress.")]>>
SchoolDisk ==
    [background |-> "ok", default_frame |-> "missing", principal_sign |-> "ok",
     class_teacher_sign |-> "corrupt", parent_sign |-> "none"]
\* sara is the class teacher of both grades and teaches MATHS in 5A, as omar does
ClassTeacherUser ==
    [username |-> "sara", full_name |-> "Sara Ali", password_hash |-> make_pbkdf2_hash("Sali26!", 1)]
SubjectTeacherUser ==
    [username |-> "omar", full_name |-> "Omar Zaid", password_hash |-> make_pbkdf2_hash("Omid26!", 1)]
UserRow(username, password_hash, full_name, role) ==
    [username |-> username, password_hash |-> password_hash, full_name |-> full_name, role |-> role]
\* main() inserts this user when the users table is empty
DefaultAdmin == UserRow("admin", make_pbkdf2_hash("admin123", 1), "System Admin", "Admin")
SchoolUsers ==
    {DefaultAdmin,
     UserRow("sara", make_pbkdf2_hash("Sali26!", 1), "Sara Ali", "Class Teacher"),
     UserRow("omar", make_pbkdf2_hash("Omid26!", 1), "Omar Zaid", "Teacher")}
Assignment(username, grade_id, subject_id) ==
    [username |-> username, grade_id |-> grade_id, subject_id |-> subject_id]
SchoolAssignments ==
    {Assignment("sara", 1, -1), Assignment("sara", 2, -1), Assignment("sara", 1, 1),
     Assignment("omar", 1, 1)}

ScaleTables ==
    {WithIds(rows) : rows \in {q \in SeqsUpTo(ScaleRowChoices, MaxScales) :
                                  \A i, j \in 1..Len(q) : i # j => q[i] # q[j]}}

\* ---------------------------------------------------------------------
\* Specifications
\* ---------------------------------------------------------------------
NoAssets ==
    [background |-> "none", default_frame |-> "missing", principal |-> "none",
     class_teacher |-> "none", parent |-> "none"]
NoDisk ==
    [background |-> "none", default_frame |-> "missing", principal_sign |-> "missing",
     class_teacher_sign |-> "none", parent_sign |-> "none"]
NoUser == [username |-> "", full_name |-> "", password_hash |-> NoHash]
NoAttempt == [current |-> "", stored |-> NoHash, outcome |-> "none"]
FirstDay == "01-01-2025"

IdleBatch ==
    /\ grades = {} /\ students = <<>> /\ subjects = <<>> /\ subject_grade_config = {}
    /\ marks = <<>> /\ grade_scales = <<>>
    /\ student_skills = <<>> /\ student_remarks = <<>> /\ user_assignments = {}
    /\ users = {} /\ attempt = NoAttempt
    /\ entered = {}
    /\ disk = NoDisk /\ user = NoUser
    /\ render_fails = {} /\ jpg_fails = {}
    /\ batch = NoBatch
IdleResolver == r_pct = Rat(0, 1) /\ r_rows = <<>> /\ r_label = Unset
\* the page inputs of a render that is about the marks only
PlainPage ==
    /\ in_name = "Aliya Khan" /\ in_grade = "5A" /\ in_skills = <<>>
    /\ in_comments = None /\ in_preparer = "Sara Ali" /\ in_assets = NoAssets
\* no second render: the files stay as they are
IdleTwice == files_later = in_assets /\ report_again = NoReport
IdleRender ==
    /\ in_scores = <<>> /\ in_scales = <<>> /\ report = NoReport
    /\ PlainPage /\ today = FirstDay
    /\ IdleTwice

\* the grade resolver applied to every percentage and band sequence
InitResolver ==
    /\ r_pct \in PctInputs
    /\ r_rows \in SeqsUpTo(BandRows, MaxBands)
    /\ r_label = Unset
    /\ IdleRender
    /\ IdleBatch

LookupGrade ==
    /\ r_label = Unset
    /\ r_label' = lookup_grade(r_pct, r_rows)
    /\ UNCHANGED <<r_pct, r_rows, renderVars, batchVars>>

NextResolver == LookupGrade
SpecResolver == InitResolver /\ [][NextResolver]_vars

\* one report rendered through the adapter from every list of mark records
InitRender ==
    /\ in_scores \in ScoreLists
    /\ in_scales \in ScaleLists
    /\ PlainPage
    /\ today = FirstDay
    /\ report = NoReport
    /\ IdleTwice
    /\ IdleResolver
    /\ IdleBatch

Render ==
    /\ report = NoReport
    /\ report' = create_report_card_bytes(
                      in_name, in_grade, in_scores, in_skills, in_comments, in_preparer,
                      in_scales, in_assets.principal, in_assets.parent,
                      in_assets.class_teacher, in_assets.background,
                      in_assets.default_frame, today)
    /\ UNCHANGED <<in_scores, in_scales, pageVars, twiceVars, resolverVars, batchVars>>

NextRender == Render
SpecRender == InitRender /\ [][NextRender]_vars

\* one report rendered through the adapter from every list of skill records
InitSkills ==
    /\ in_skills \in SkillLists
    /\ in_scores = ExampleMarks
    /\ in_scales = <<BandA, BandB>>
    /\ in_name = "Aliya Khan" /\ in_grade = "5A"
    /\ in_comments = None /\ in_preparer = "Sara Ali" /\ in_assets = NoAssets
    /\ today = FirstDay
    /\ report = NoReport
    /\ IdleTwice
    /\ IdleResolver
    /\ IdleBatch

NextSkills == Render
SpecSkills == InitSkills /\ [][NextSkills]_vars

\* one report rendered through the adapter for every grade label, preparer
\* and combination of image assets
InitPage ==
    /\ in_scores \in {<<>>, ExampleMarks}
    /\ in_scales = <<BandA, BandB>>
    /\ in_name = "Aliya Khan"
    /\ in_grade \in GradeLabels
    /\ in_skills = <<>>
    /\ in_comments \in CommentTexts
    /\ in_preparer \in Preparers
    /\ in_assets \in AssetChoices
    /\ today = FirstDay
    /\ report = NoReport
    /\ IdleTwice
    /\ IdleResolver
    /\ IdleBatch

NextPage == Render
SpecPage == InitPage /\ [][NextPage]_vars

\* the same context rendered twice on one day; between the two renders the
\* files behind the image paths may be replaced (Configuration tab,
\* "Upload Principal Signature") and the default frame put in place or removed
SamePaths(before, after) ==
    \A f \in DOMAIN before : (before[f] = "none") <=> (after[f] = "none")

InitTwice ==
    /\ in_scores = ExampleMarks
    /\ in_scales = <<BandA, BandB>>
    /\ in_name = "Aliya Khan"
    /\ in_grade = "5A"
    /\ in_skills = <<>>
    /\ in_comments \in {None, Str("Good progress.\nKeep it up.\n")}
    /\ in_preparer = "Sara Ali"
    /\ in_assets \in AssetChoices
    /\ files_later \in {a \in AssetChoices : SamePaths(in_assets, a)}
    /\ today = FirstDay
    /\ report = NoReport
    /\ report_again = NoReport
    /\ IdleResolver
    /\ IdleBatch

RenderAgain ==
    /\ report # NoReport
    /\ report_again = NoReport
    /\ report_again' = create_report_card_bytes(
                            in_name, in_grade, in_scores, in_skills, in_comments, in_preparer,
                            in_scales, files_later.principal, files_later.parent,
                            files_later.class_teacher, files_later.background,
                            files_later.default_frame, today)
    /\ UNCHANGED <<in_scores, in_scales, pageVars, report, files_later, resolverVars, batchVars>>

NextTwice == Render \/ RenderAgain
SpecTwice == InitTwice /\ [][NextTwice]_vars

\* the render raises for no student or for one of the first two; the image
\* conversion fails for no student, for the second, or for all (pdf2image
\* or poppler not installed)
RenderFailChoices == {{}, {1}, {2}}
JpgFailChoices == {{}, {2}, StudentIds}

\* the two batch generators over a populated school database
InitBatch ==
    /\ grades = GradeRows
    /\ students = StudentRows
    /\ subjects = SubjectRows
    /\ subject_grade_config \in ConfigChoices
    /\ marks \in MarksChoices
    /\ grade_scales \in ScaleTables
    /\ student_skills = SkillsTable
    /\ student_remarks = RemarksTable
    /\ disk = SchoolDisk
    /\ user_assignments = SchoolAssignments
    /\ users = SchoolUsers
    /\ attempt = NoAttempt
    /\ entered = {}
    /\ user \in {ClassTeacherUser, SubjectTeacherUser}
    /\ render_fails \in RenderFailChoices
    /\ jpg_fails \in JpgFailChoices
    /\ batch = NoBatch
    /\ IdleResolver
    /\ IdleRender

NextBatch == CTGenerate \/ PrincipalGenerateGrade \/ PrincipalGenerateAll
SpecBatch == InitBatch /\ [][NextBatch]_vars

\* ---------------------------------------------------------------------
\* Marks entry: Teacher dashboard and Class Teacher dashboard, Save Marks
\* ---------------------------------------------------------------------
\* the (grade, subject) pairs a user may enter marks for: the assignments
\* that join to a subjects row (a class-teacher row has subject_id = -1)
marks_assignments(username) ==
    {ua \in user_assignments :
        /\ ua.username = username
        /\ \E g \in grades : g.id = ua.grade_id
        /\ \E k \in 1..Len(subjects) : subjects[k].id = ua.subject_id}

\* students of the grade LEFT JOIN marks of the subject, ORDER BY name
editor_df(grade_id, subject_id) ==
    LET studs == ct_students(grade_id)
    IN [k \in 1..Len(studs) |->
          LET mine == SelectSeq(marks, LAMBDA m : m.student_id = studs[k].id
                                                  /\ m.subject_id = subject_id)
          IN IF mine = <<>>
             THEN [student_id |-> studs[k].id, te_score |-> None, ce_score |-> None, remarks |-> ""]
             ELSE [student_id |-> studs[k].id, te_score |-> mine[1].te_score,
                   ce_score |-> mine[1].ce_score, remarks |-> mine[1].remarks]]

\* what the user types into the data editor before saving: nothing, or a
\* score into one cell
NoEdit == [row |-> 0, column |-> "te_score", value |-> None]
Edits(df) ==
    {NoEdit} \cup [row : 1..Len(df), column : {"te_score", "ce_score"}, value : EnteredScores]
edited_df(df, edit) ==
    [k \in 1..Len(df) |->
        IF k # edit.row THEN df[k]
        ELSE IF edit.column = "te_score" THEN [df[k] EXCEPT !.te_score = edit.value]
        ELSE [df[k] EXCEPT !.ce_score = edit.value]]

\* INSERT INTO marks ... ON CONFLICT(student_id, subject_id) DO UPDATE SET ...
upsert_mark(tbl, student_id, subject_id, te, ce, rem) ==
    IF \E k \in 1..Len(tbl) : tbl[k].student_id = student_id /\ tbl[k].subject_id = subject_id
    THEN [k \in 1..Len(tbl) |->
            IF tbl[k].student_id = student_id /\ tbl[k].subject_id = subject_id
            THEN [tbl[k] EXCEPT !.te_score = te, !.ce_score = ce, !.remarks = rem]
            ELSE tbl[k]]
    ELSE Append(tbl, [student_id |-> student_id, subject_id |-> subject_id,
                      te_score |-> te, ce_score |-> ce, remarks |-> rem])

\* Teacher dashboard: if pd.isna(te): te = 0
teacher_value(v) == IF v = None THEN Num(0) ELSE v
\* Class Teacher dashboard: te if pd.notna(te) else None
ct_value(v) == v

RECURSIVE save_rows(_, _, _, _, _)
save_rows(tbl, rows, i, subject_id, dashboard) ==
    IF i > Len(rows) THEN tbl
    ELSE LET row == rows[i]
             te == IF dashboard = "teacher" THEN teacher_value(row.te_score) ELSE ct_value(row.te_score)
             ce == IF dashboard = "teacher" THEN teacher_value(row.ce_score) ELSE ct_value(row.ce_score)
         IN save_rows(upsert_mark(tbl, row.student_id, subject_id, te, ce, row.remarks),
                      rows, i + 1, subject_id, dashboard)

now_entered(df, edit, subject_id) ==
    IF edit.row = 0 THEN entered ELSE entered \cup {<<df[edit.row].student_id, subject_id>>}

MarksUsers == {"sara", "omar"}

\* Teacher dashboard, Save Marks
TeacherSaveMarks ==
    /\ \E username \in MarksUsers : \E ua \in marks_assignments(username) :
        LET df == editor_df(ua.grade_id, ua.subject_id)
        IN \E edit \in Edits(df) :
            /\ marks' = save_rows(marks, edited_df(df, edit), 1, ua.subject_id, "teacher")
            /\ entered' = now_entered(df, edit, ua.subject_id)
    /\ UNCHANGED <<grades, students, subjects, subject_grade_config, grade_scales,
                   student_skills, student_remarks, user_assignments, users,
                   envVars, batch, resolverVars, renderVars>>

\* Class Teacher dashboard, tab Marks Entry, Save Marks
CTSaveMarks ==
    /\ \E username \in MarksUsers : \E ua \in marks_assignments(username) :
        LET df == editor_df(ua.grade_id, ua.subject_id)
        IN /\ df # <<>>
           /\ \E edit \in Edits(df) :
                /\ marks' = save_rows(marks, edited_df(df, edit), 1, ua.subject_id, "class_teacher")
                /\ entered' = now_entered(df, edit, ua.subject_id)
    /\ UNCHANGED <<grades, students, subjects, subject_grade_config, grade_scales,
                   student_skills, student_remarks, user_assignments, users,
                   envVars, batch, resolverVars, renderVars>>

\* a school in which no mark, or one student's MATHS mark, has been entered
InitMarks ==
    /\ grades = GradeRows
    /\ students = StudentRows
    /\ subjects = SubjectRows
    /\ subject_grade_config = {Config(1, 1, Whole(70), Whole(30)), Config(2, 1, Whole(50), 0)}
    /\ marks \in {<<>>, <<Mark(1, 1, Num(Whole(45)), Num(Whole(20)))>>}
    /\ entered = {<<marks[k].student_id, marks[k].subject_id>> : k \in 1..Len(marks)}
    /\ grade_scales = <<>>
    /\ student_skills = <<>> /\ student_remarks = <<>>
    /\ user_assignments = SchoolAssignments
    /\ users = SchoolUsers
    /\ attempt = NoAttempt
    /\ disk = NoDisk /\ user = NoUser
    /\ render_fails = {} /\ jpg_fails = {}
    /\ batch = NoBatch
    /\ IdleResolver
    /\ IdleRender

NextMarks == TeacherSaveMarks \/ CTSaveMarks
SpecMarks == InitMarks /\ [][NextMarks]_vars

\* ---------------------------------------------------------------------
\* main.py: login, logout and the sidebar's Change Password
\* ---------------------------------------------------------------------
Passwords == {"Sali26!", "Tulip#1", "Orchid#2"}
Salts == {1, 2}
LoginNames == {"sara"}

\* SELECT ... FROM users WHERE username=?
users_named(username) == {u \in users : u.username = username}

\* login(): the session keeps the row's password_hash as it is at login
Login ==
    /\ user = NoUser
    /\ \E username \in LoginNames, password \in Passwords :
        /\ users_named(username) # {}
        /\ LET row == CHOOSE u \in users_named(username) : TRUE
           IN /\ verify_password(row.password_hash, password)
              /\ user' = [username |-> row.username, full_name |-> row.full_name,
                          password_hash |-> row.password_hash]
    /\ UNCHANGED <<dbVars, disk, attempt, render_fails, jpg_fails, batch, resolverVars, renderVars>>

Logout ==
    /\ user # NoUser
    /\ user' = NoUser
    /\ UNCHANGED <<dbVars, disk, attempt, render_fails, jpg_fails, batch, resolverVars, renderVars>>

\* UPDATE users SET password_hash=? WHERE username=?
with_password(tbl, username, new_ph) ==
    {IF u.username = username THEN [u EXCEPT !.password_hash = new_ph] ELSE u : u \in tbl}

\* the hash Update Password checks the entered current password against
checked_hash == user.password_hash
stored_hash ==
    IF users_named(user.username) = {} THEN NoHash
    ELSE (CHOOSE u \in users_named(user.username) : TRUE).password_hash

\* sidebar, Change Password, the Update Password button
ChangePassword ==
    /\ user # NoUser
    /\ \E curr_pass_input \in Passwords, new_pass_input \in Passwords, salt \in Salts :
        IF verify_password(checked_hash, curr_pass_input)
        THEN /\ users' = with_password(users, user.username,
                                       make_pbkdf2_hash(new_pass_input, salt))
             /\ attempt' = [current |-> curr_pass_input, stored |-> stored_hash,
                            outcome |-> "updated"]
        ELSE /\ users' = users
             /\ attempt' = [current |-> curr_pass_input, stored |-> stored_hash,
                            outcome |-> "incorrect"]
    /\ UNCHANGED <<grades, students, subjects, subject_grade_config, marks, grade_scales,
                   student_skills, student_remarks, user_assignments, entered,
                   disk, user, render_fails, jpg_fails, batch, resolverVars, renderVars>>

\* the users of the school, nobody logged in
InitAccount ==
    /\ grades = {} /\ students = <<>> /\ subjects = <<>> /\ subject_grade_config = {}
    /\ marks = <<>> /\ grade_scales = <<>>
    /\ student_skills = <<>> /\ student_remarks = <<>> /\ user_assignments = {}
    /\ entered = {}
    /\ users = SchoolUsers
    /\ attempt = NoAttempt
    /\ disk = NoDisk /\ user = NoUser
    /\ render_fails = {} /\ jpg_fails = {}
    /\ batch = NoBatch
    /\ IdleResolver
    /\ IdleRender

NextAccount == Login \/ Logout \/ ChangePassword
SpecAccount == InitAccount /\ [][NextAccount]_vars

\* ---------------------------------------------------------------------
\* Admin dashboard: User Management and Assignments
\* ---------------------------------------------------------------------
\* get_connection() is sqlite3.connect(DB_NAME): SQLite enforces foreign
\* keys per connection and only after PRAGMA foreign_keys = ON, which
\* init_db issues on its own connection and no handler issues on its own
foreign_keys == FALSE

PersonNames == {<<"Sara", "Ali">>, <<"Omar", "Zaid">>}
\* fname.strip().lower() + lname.strip().lower()[:3]
generate_username(first_name, last_name) ==
    IF <<first_name, last_name>> = <<"Sara", "Ali">> THEN "saraali" ELSE "omarzai"
\* fname[:2] + lname[-2:] + "26!"
generate_password(first_name, last_name) ==
    IF <<first_name, last_name>> = <<"Sara", "Ali">> THEN "Sali26!" ELSE "Omid26!"
full_name_of(first_name, last_name) ==
    IF <<first_name, last_name>> = <<"Sara", "Ali">> THEN "Sara Ali" ELSE "Omar Zaid"

TeacherRoles == {"Class Teacher", "Teacher"}
GradeIds == {g.id : g \in GradeRows}
usernames == {u.username : u \in users}
\* the users the admin edits: everyone but the admin's own row
managed_users == usernames \ {"admin"}

\* Create User: an existing username raises IntegrityError and nothing is kept
CreateUser ==
    /\ \E person \in PersonNames, u_role \in TeacherRoles, picked \in {{}, {1}, GradeIds} :
        LET gen_user == generate_username(person[1], person[2])
            phash == make_pbkdf2_hash(generate_password(person[1], person[2]), 1)
            ct_grade_ids == IF u_role = "Class Teacher" THEN picked ELSE {}
        IN IF gen_user \in usernames
           THEN UNCHANGED <<users, user_assignments>>
           ELSE /\ users' = users \cup
                         {UserRow(gen_user, phash, full_name_of(person[1], person[2]), u_role)}
                /\ user_assignments' = user_assignments \cup
                         {Assignment(gen_user, gid, -1) : gid \in ct_grade_ids}
    /\ UNCHANGED <<grades, students, subjects, subject_grade_config, marks, grade_scales,
                   student_skills, student_remarks, entered,
                   envVars, batch, resolverVars, renderVars>>

\* Update User: basic info, then the username in users and in
\* user_assignments, then the class-teacher grades; an exception (a username
\* already taken) leaves the database as it was
UpdateUser ==
    /\ \E sel_u \in managed_users, renamed \in BOOLEAN, new_pass \in {"", "Reset26!"} :
       \E new_role \in TeacherRoles, new_ct_grades \in {{}, {2}} :
        LET new_username == IF renamed THEN "sara" ELSE sel_u
            updated == {IF u.username = sel_u
                        THEN [u EXCEPT !.role = new_role,
                                       !.password_hash =
                                           IF new_pass # "" THEN make_pbkdf2_hash(new_pass, 1)
                                           ELSE u.password_hash,
                                       !.username = new_username]
                        ELSE u : u \in users}
            moved == {IF ua.username = sel_u
                      THEN [ua EXCEPT !.username = new_username] ELSE ua : ua \in user_assignments}
            curr_ids == {ua.grade_id : ua \in {x \in moved : x.username = new_username
                                                              /\ x.subject_id = -1}}
            new_ids == IF new_role = "Class Teacher" THEN new_ct_grades ELSE {}
            to_add == new_ids \ curr_ids
            to_remove == curr_ids \ new_ids
            synced == IF new_role = "Class Teacher"
                      THEN {ua \in moved : ~(/\ ua.username = new_username
                                             /\ ua.subject_id = -1
                                             /\ ua.grade_id \in to_remove)}
                               \cup {Assignment(new_username, gid, -1) : gid \in to_add}
                      ELSE moved
        IN IF new_username # sel_u /\ new_username \in usernames
           THEN UNCHANGED <<users, user_assignments>>
           ELSE /\ users' = updated
                /\ user_assignments' = synced
    /\ UNCHANGED <<grades, students, subjects, subject_grade_config, marks, grade_scales,
                   student_skills, student_remarks, entered,
                   envVars, batch, resolverVars, renderVars>>

\* DELETE USER: DELETE FROM users WHERE username=?
DeleteUser ==
    /\ \E sel_u \in managed_users :
        /\ users' = {u \in users : u.username # sel_u}
        /\ user_assignments' =
              IF foreign_keys THEN {ua \in user_assignments : ua.username # sel_u}
              ELSE user_assignments
    /\ UNCHANGED <<grades, students, subjects, subject_grade_config, marks, grade_scales,
                   student_skills, student_remarks, entered,
                   envVars, batch, resolverVars, renderVars>>

\* Assignments tab, Assign (Cartesian Product)
AssignSubjects ==
    /\ \E sel_u_assign \in managed_users, g_ids \in {{1}}, s_ids \in {{1}} :
        user_assignments' = user_assignments \cup
            {Assignment(sel_u_assign, gid, sid) : gid \in g_ids, sid \in s_ids}
    /\ UNCHANGED <<grades, students, subjects, subject_grade_config, marks, grade_scales,
                   student_skills, student_remarks, users, entered,
                   envVars, batch, resolverVars, renderVars>>

\* a new installation: the grades and subjects are set up, the only user is
\* the default admin
InitAdmin ==
    /\ grades = GradeRows
    /\ students = <<>>
    /\ subjects = SubjectRows
    /\ subject_grade_config = {}
    /\ marks = <<>> /\ grade_scales = <<>>
    /\ student_skills = <<>> /\ student_remarks = <<>>
    /\ user_assignments = {}
    /\ entered = {}
    /\ users = {DefaultAdmin}
    /\ attempt = NoAttempt
    /\ disk = NoDisk /\ user = NoUser
    /\ render_fails = {} /\ jpg_fails = {}
    /\ batch = NoBatch
    /\ IdleResolver
    /\ IdleRender

NextAdmin == CreateUser \/ UpdateUser \/ DeleteUser \/ AssignSubjects
SpecAdmin == InitAdmin /\ [][NextAdmin]_vars

\* ---------------------------------------------------------------------
\* Grade resolver properties
\* ---------------------------------------------------------------------
C7Bands == <<BandA, BandB>>
Resolved == r_label # Unset

\* C7 (as stated): with bands [50,100,A],[0,49,B] the resolver returns A for
\* 50, B for 49 and B for 49.9.
C7_Original ==
    (Resolved /\ r_rows = C7Bands) =>
        /\ (r_pct = Rat(50, 1) => r_label = "A")
        /\ (r_pct = Rat(49, 1) => r_label = "B")
        /\ (r_pct = Rat(499, 10) => r_label = "B")

\* C7 (amended): with bands [50,100,A],[0,49,B] the resolver returns A for
\* 50, B for 49 and the empty label for 49.9, which lies in neither band.
C7_Amended ==
    (Resolved /\ r_rows = C7Bands) =>
        /\ (r_pct = Rat(50, 1) => r_label = "A")
        /\ (r_pct = Rat(49, 1) => r_label = "B")
        /\ (r_pct = Rat(499, 10) => r_label = "")

C7_Witness == Resolved /\ r_rows = C7Bands /\ r_pct = Rat(499, 10)

\* positions of the bands whose closed interval [Min, Max] contains r_pct
Containing ==
    {i \in 1..Len(r_rows) :
        /\ Val(r_rows[i].Min) * r_pct.d <= r_pct.n
        /\ r_pct.n <= Val(r_rows[i].Max) * r_pct.d}
FirstContaining == CHOOSE i \in Containing : \A j \in Containing : i <= j

\* C8: lookup_grade returns the (trimmed) label of the earliest band in the
\* sequence whose closed interval contains the percentage.
C8_FirstMatchWins ==
    (Resolved /\ Containing # {}) =>
        r_label = Strip(r_rows[FirstContaining].Grade)

C8_Witness ==
    /\ Resolved
    /\ \E i, j \in Containing : i < j /\ Strip(r_rows[i].Grade) # Strip(r_rows[j].Grade)
    /\ \E i \in Containing : r_pct = Rat(Val(r_rows[i].Max), 1)
\* ---------------------------------------------------------------------
\* Render properties
\* ---------------------------------------------------------------------
Rendered == report.kind = "pdf"

\* the scores of input record i as the caller supplied them, in either shape
InTe(i) == IF "te_score" \in DOMAIN in_scores[i] THEN in_scores[i].te_score ELSE in_scores[i].TE
InCe(i) == IF "ce_score" \in DOMAIN in_scores[i] THEN in_scores[i].ce_score ELSE in_scores[i].CE
OrZero(v) == IF v = None THEN 0 ELSE Val(v)

GradedInputs == {i \in 1..Len(in_scores) : InTe(i) # None \/ InCe(i) # None}
UngradedInputs == {i \in 1..Len(in_scores) : InTe(i) = None /\ InCe(i) = None}

RECURSIVE SumScored(_)
SumScored(S) ==
    IF S = {} THEN 0
    ELSE LET i == CHOOSE x \in S : TRUE
         IN OrZero(InTe(i)) + OrZero(InCe(i)) + SumScored(S \ {i})

RECURSIVE SumFull(_)
SumFull(S) ==
    IF S = {} THEN 0
    ELSE LET i == CHOOSE x \in S : TRUE
         IN Val(mapped_row(in_scores[i]).Full_Marks) + SumFull(S \ {i})

\* C2: a record is ungraded exactly when both scores are absent; ungraded
\* records add nothing to total_scored or total_full; a graded record's
\* missing component counts as 0; the MATHS/ART example gives 65 of 100,
\* 65 percent, PASSED.
C2_UngradedExcluded ==
    Rendered =>
        /\ \A i \in 1..Len(in_scores) : report.rows[i].graded <=> (i \in GradedInputs)
        /\ report.total_scored = SumScored(GradedInputs)
        /\ report.total_full = SumFull(GradedInputs)
        /\ (in_scores = ExampleMarks =>
                /\ report.total_scored = Whole(65)
                /\ report.total_full = Whole(100)
                /\ RatEQ(report.overall_pct, Pct(65))
                /\ report.status = "PASSED")

C2_Witness ==
    /\ Rendered
    /\ UngradedInputs # {}
    /\ \E i \in GradedInputs : InTe(i) = None \/ InCe(i) = None

\* C4: for every graded record the per-subject scored value is exactly
\* (te or 0) + (ce or 0) and its percentage is scored/full*100 when full > 0
\* and 0 otherwise, for every score the marks table can hold.
C4_ExactScored ==
    Rendered =>
        \A i \in GradedInputs :
            /\ report.rows[i].scored * Scale = OrZero(InTe(i)) + OrZero(InCe(i))
            /\ IF report.rows[i].full > 0
               THEN RatEQ(report.rows[i].pct,
                          Rat((OrZero(InTe(i)) + OrZero(InCe(i))) * 100, report.rows[i].full * Scale))
               ELSE RatEQ(report.rows[i].pct, Pct(0))

\* bands of in_scales whose closed interval contains the percentage p
ScalesContaining(p) ==
    {k \in 1..Len(in_scales) :
        /\ Val(in_scales[k].Min) * p.d <= p.n
        /\ p.n <= Val(in_scales[k].Max) * p.d}

\* C9: a graded subject whose percentage lies in no band (or when the band
\* list is empty) gets the empty grade label, and the report is still
\* produced with one row per record.
C9_NoBandBlank ==
    Rendered =>
        /\ Len(report.rows) = Len(in_scores)
        /\ \A i \in GradedInputs :
               ScalesContaining(report.rows[i].pct) = {} => report.rows[i].grade = ""

C9_Witness ==
    /\ Rendered
    /\ in_scales # <<>>
    /\ \E i \in GradedInputs : ScalesContaining(report.rows[i].pct) = {}

\* C10: status is PASSED exactly when the overall percentage is at least 40
\* (40 itself included) and FAILED otherwise.
C10_PassThreshold ==
    Rendered =>
        /\ report.status \in {"PASSED", "FAILED"}
        /\ report.status = "PASSED" <=> report.overall_pct.n >= 40 * report.overall_pct.d

C10_Witness ==
    /\ Rendered
    /\ report.overall_pct.n = 40 * report.overall_pct.d
    /\ report.status = "PASSED"

\* C11: the overall percentage is (sum of scored over the graded records) /
\* (sum of full over the graded records) * 100, and 0 when no record is
\* graded or that sum of full is 0; a student whose subjects are all
\* ungraded gets a report with overall 0 and status FAILED.
C11_OverallPercentage ==
    Rendered =>
        /\ IF GradedInputs # {} /\ SumFull(GradedInputs) # 0
           THEN RatEQ(report.overall_pct,
                      Rat(SumScored(GradedInputs) * 100, SumFull(GradedInputs)))
           ELSE report.overall_pct.n = 0
        /\ report.overall_pct.d > 0
        /\ (GradedInputs = {} => report.overall_pct.n = 0 /\ report.status = "FAILED")

C11_Witness ==
    /\ Rendered
    /\ Len(in_scores) = MaxRows
    /\ GradedInputs = {}
    /\ report.status = "FAILED"

GradedRows == {i \in 1..Len(report.rows) : report.rows[i].graded}

RECURSIVE SumScoredCells(_)
SumScoredCells(S) ==
    IF S = {} THEN 0
    ELSE LET i == CHOOSE x \in S : TRUE
         IN report.rows[i].cells.scored.int + SumScoredCells(S \ {i})

RECURSIVE SumFullCells(_)
SumFullCells(S) ==
    IF S = {} THEN 0
    ELSE LET i == CHOOSE x \in S : TRUE
         IN report.rows[i].cells.full.int + SumFullCells(S \ {i})

\* C12: the TOTAL row shows the sum of the Scored cells and the sum of the
\* Full Marks cells of the graded rows above it and the overall percentage,
\* and its TE, CE, Grade and Remarks cells are blank, for every list of
\* mark records.
C12_TotalRowSums ==
    Rendered =>
        /\ report.total.scored = IntCell(SumScoredCells(GradedRows))
        /\ report.total.full = IntCell(SumFullCells(GradedRows))
        /\ report.total.pct = PctCell(report.overall_pct)
        /\ report.total.te = Blank /\ report.total.ce = Blank
        /\ report.total.grade = Blank /\ report.total.remarks = Blank

\* the six cells of table row i that carry marks
MarkCells(i) ==
    LET c == report.rows[i].cells
    IN {c.te, c.ce, c.scored, c.full, c.pct, c.grade}

\* C13: for every ungraded subject the TE, CE, Scored, Full Marks,
\* Percentage and Grade cells are all the placeholder "-", and for every
\* graded subject, one scored 0 included, none of them is the placeholder.
C13_Placeholders ==
    Rendered =>
        /\ \A i \in UngradedInputs : MarkCells(i) = {Dash}
        /\ \A i \in GradedInputs : Dash \notin MarkCells(i)

C13_Witness ==
    /\ Rendered
    /\ UngradedInputs # {}
    /\ \E i \in GradedInputs :
           /\ InTe(i) = Num(0) /\ InCe(i) = None
           /\ report.rows[i].cells.scored = IntCell(0)
\* ---------------------------------------------------------------------
\* Skills table properties
\* ---------------------------------------------------------------------
\* name, score and own remark of skill record i as the caller supplied them
InSkillName(i) ==
    IF "skill_name" \in DOMAIN in_skills[i] THEN in_skills[i].skill_name ELSE in_skills[i].Skill
InSkillScore(i) ==
    IF "score" \in DOMAIN in_skills[i] THEN in_skills[i].score ELSE in_skills[i].Score
InSkillRemark(i) ==
    IF "Remark" \in DOMAIN in_skills[i] THEN in_skills[i].Remark ELSE ""

StatedRemark(score) ==
    CASE score = Num(Whole(1)) -> "Beginning"
      [] score = Num(Whole(2)) -> "Progressing"
      [] score = Num(Whole(3)) -> "Accomplished"
      [] score = Num(Whole(4)) -> "Outstanding"
      [] OTHER -> ""

\* C14: the skill remark resolver maps 1 to "Beginning", 2 to "Progressing",
\* 3 to "Accomplished" and 4 to "Outstanding", and gives the empty string
\* for any other or absent score; the report is produced in every case.
C14_RemarkMapping ==
    Rendered =>
        \A i \in 1..Len(in_skills) :
            InSkillRemark(i) = "" => report.skills[i].remark = StatedRemark(InSkillScore(i))

\* C15: the skills table has exactly one row per skill record of the input,
\* in input order, hence none for a catalog skill the input lacks; a row's
\* remark is the record's own remark when it has one and the resolver's
\* remark for its score otherwise.
C15_SkillRows ==
    Rendered =>
        /\ Len(report.skills) = Len(in_skills)
        /\ \A i \in 1..Len(in_skills) :
               /\ report.skills[i].skill = InSkillName(i)
               /\ report.skills[i].remark =
                      IF InSkillRemark(i) # "" THEN InSkillRemark(i)
                      ELSE get_skill_remark(InSkillScore(i))

C15_Witness ==
    /\ Rendered
    /\ Len(report.skills) = 2
    /\ {report.skills[i].skill : i \in 1..Len(report.skills)} # FIXED_SKILLS
    /\ InSkillRemark(1) = "" /\ InSkillScore(1) = Num(Whole(4))
    /\ report.skills[1].remark # ""
    /\ InSkillRemark(2) = "Good" /\ InSkillScore(2) = Num(Whole(1))
    /\ report.skills[2].skill = "Remembering"
\* ---------------------------------------------------------------------
\* Page properties: header, status block, images
\* ---------------------------------------------------------------------
RECURSIVE JoinDrawn(_)
JoinDrawn(pieces) ==
    IF pieces = <<>> THEN "" ELSE Head(pieces).text \o JoinDrawn(Tail(pieces))

\* C16: for every grade label (without digits, with digits followed by
\* text, with digits and nothing after them) the text drawn for the grade
\* in the header is the label verbatim.
C16_GradeLabelVerbatim ==
    Rendered => JoinDrawn(report.header_grade) = in_grade

FooterValues == {report.footer[k].value : k \in 1..Len(report.footer)}

\* C17: every rendered report shows the status (PASSED or FAILED), a
\* "prepared on" date and the preparer's name the caller passed.
C17_StatusPreparedOnBy ==
    Rendered =>
        /\ \E k \in 1..Len(report.footer) :
               report.footer[k].label = "Status" /\ report.footer[k].value \in {"PASSED", "FAILED"}
        /\ \E k \in 1..Len(report.footer) :
               report.footer[k].label = "Prepared on" /\ report.footer[k].value = today
        /\ in_preparer \in FooterValues

\* the asset behind the frame the adapter hands on
FrameAsset ==
    IF in_assets.background # "none" THEN in_assets.background
    ELSE in_assets.default_frame

SignatureAssets == <<in_assets.principal, in_assets.class_teacher, in_assets.parent>>

\* C18: whatever image assets are absent or fail to load (background,
\* principal, class-teacher and parent signature, in any combination, no
\* parent signature path included), the render returns a document; an
\* image is drawn exactly when its asset loads, and the signature labels
\* are drawn regardless.
C18_AssetsOmitted ==
    report # NoReport =>
        /\ report.kind = "pdf"
        /\ report.frame <=> FrameAsset = "ok"
        /\ \A i \in 1..3 :
               /\ report.signatures[i].image <=> SignatureAssets[i] = "ok"
               /\ report.signatures[i].label = signature_labels[i]

C18_Witness ==
    /\ Rendered
    /\ in_assets.parent = "none"
    /\ in_assets.principal = "corrupt"
    /\ in_assets.class_teacher = "missing"
    /\ in_assets.background = "corrupt"
    /\ ~report.frame
    /\ \A i \in 1..3 : ~report.signatures[i].image

\* the text lines of the comment handed in
InCommentLines == splitlines(IF in_comments = None THEN "" ELSE Val(in_comments))

\* C23: the report shows at most 4 lines of the teacher comment, the first
\* ones in their order; further lines are dropped, an empty or absent
\* comment gives no comment line, and no comment makes the render fail.
C23_CommentLines ==
    report # NoReport =>
        /\ report.kind = "pdf"
        /\ Len(report.comments) <= 4
        /\ Len(report.comments) <= Len(InCommentLines)
        /\ Len(InCommentLines) <= 4 => Len(report.comments) = Len(InCommentLines)
        /\ Len(InCommentLines) > 4 => Len(report.comments) = 4
        /\ \A k \in 1..Len(report.comments) : report.comments[k] = InCommentLines[k]
        /\ (in_comments = None \/ in_comments = Str("")) => report.comments = <<>>

C23_Witness ==
    /\ report # NoReport
    /\ Len(InCommentLines) = 5
    /\ Len(report.comments) = 4
    /\ report.comments[4] = "Polite."

\* ---------------------------------------------------------------------
\* Two renders of one context
\* ---------------------------------------------------------------------
RenderedTwice == report # NoReport /\ report_again # NoReport

LoopEntered == batch.outcome \in {"success", "none_generated", "exception"}
TargetIds == {batch.targets[k].id : k \in 1..Len(batch.targets)}
ReportIds == {batch.reports[k].sid : k \in 1..Len(batch.reports)}
PdfEntryIds == {batch.zip[k].sid : k \in {j \in 1..Len(batch.zip) : batch.zip[j].ext = "pdf"}}

\* C1: when the render of exactly one student of the batch raises and other
\* students follow it, the run still completes: every other student is
\* rendered and the archive offered holds exactly the other students' entries.
C1_BatchContinues ==
    (/\ LoopEntered
     /\ Cardinality(TargetIds \cap render_fails) = 1
     /\ \E k \in 1..(Len(batch.targets) - 1) : batch.targets[k].id \in render_fails) =>
        /\ batch.outcome # "exception"
        /\ ReportIds = TargetIds \ render_fails
        /\ Len(batch.reports) = Len(batch.targets) - 1
        /\ ("PDF" \in batch.fmt => PdfEntryIds = TargetIds \ render_fails)
        /\ batch.offered

\* the subject_grade_config rows for the subject named name in grade grade_id
ConfigFor(name, grade_id) ==
    {sc \in subject_grade_config :
        /\ sc.grade_id = grade_id
        /\ \E k \in 1..Len(subjects) : subjects[k].id = sc.subject_id /\ subjects[k].name = name}

RECURSIVE SumConfiguredFull(_, _)
SumConfiguredFull(rep, S) ==
    IF S = {} THEN 0
    ELSE LET i == CHOOSE x \in S : TRUE
             sc == CHOOSE x \in ConfigFor(rep.pdf.rows[i].subject, rep.grade_id) : TRUE
         IN Val(sc.te_max_marks) + Val(sc.ce_max_marks) + SumConfiguredFull(rep, S \ {i})

\* C3: in a class-teacher batch the full marks of every graded table row,
\* and the amount added to total_full, are te_max + ce_max as configured for
\* the subject and grade.
C3_FullMarksConfigured ==
    (LoopEntered /\ batch.gen = "class_teacher") =>
        \A k \in 1..Len(batch.reports) :
            LET rep == batch.reports[k]
                gradedRows == {i \in 1..Len(rep.pdf.rows) : rep.pdf.rows[i].graded}
            IN /\ \A i \in gradedRows :
                     \A sc \in ConfigFor(rep.pdf.rows[i].subject, rep.grade_id) :
                        rep.pdf.rows[i].full * Scale = Val(sc.te_max_marks) + Val(sc.ce_max_marks)
               /\ rep.pdf.total_full = SumConfiguredFull(rep, gradedRows)

\* grade_scales rows whose closed interval contains the percentage p
TableContaining(p) ==
    {k \in 1..Len(grade_scales) :
        /\ Val(grade_scales[k].min_pct) * p.d <= p.n
        /\ p.n <= Val(grade_scales[k].max_pct) * p.d}

\* C5: in both generators the grade label of a graded subject is the label
\* of a grade_scales band that contains the subject's percentage.
C5_LabelOfContainingBand ==
    LoopEntered =>
        \A k \in 1..Len(batch.reports) :
            \A i \in 1..Len(batch.reports[k].pdf.rows) :
                LET row == batch.reports[k].pdf.rows[i]
                IN (row.graded /\ TableContaining(row.pct) # {}) =>
                       row.grade \in {Strip(grade_scales[b].grade_label) : b \in TableContaining(row.pct)}

\* the bands that apply to grade_id: its own when it has any, else the global ones
ScopedPool(grade_id) ==
    LET own == {b \in 1..Len(grade_scales) : grade_scales[b].grade_id = Num(grade_id)}
    IN IF own # {} THEN own
       ELSE {b \in 1..Len(grade_scales) : grade_scales[b].grade_id = None}

\* C6: in a class-teacher batch the label of a graded subject is resolved
\* from the bands scoped to the student's grade when there are any, else
\* from the global bands; a band of another grade never supplies it.
C6_ScopedBandsOnly ==
    (LoopEntered /\ batch.gen = "class_teacher") =>
        \A k \in 1..Len(batch.reports) :
            \A i \in 1..Len(batch.reports[k].pdf.rows) :
                LET row == batch.reports[k].pdf.rows[i]
                    cont == TableContaining(row.pct) \cap ScopedPool(batch.reports[k].grade_id)
                    first == CHOOSE b \in cont : \A c \in cont : b <= c
                IN row.graded =>
                       row.grade = IF cont = {} THEN ""
                                   ELSE Strip(grade_scales[first].grade_label)

JpgEntryIds == {batch.zip[k].sid : k \in {j \in 1..Len(batch.zip) : batch.zip[j].ext = "jpg"}}

EntryStudent(entry) == CHOOSE st \in {batch.targets[k] : k \in 1..Len(batch.targets)} : st.id = entry.sid

\* C21: in every batch generator each archive entry is named
\* {StudentName}_{AdmissionNo} (spaces as underscores) with its extension, so
\* that no two entries of the archive have the same name, also when two of
\* the selected students share a name.
C21_EntryNames ==
    LoopEntered =>
        /\ \A k \in 1..Len(batch.zip) :
              LET stud == EntryStudent(batch.zip[k])
              IN batch.zip[k].base = <<Underscored(stud.name), Underscored(stud.admission_no)>>
        /\ \A i, j \in 1..Len(batch.zip) :
              i # j => <<batch.zip[i].base, batch.zip[i].ext>> # <<batch.zip[j].base, batch.zip[j].ext>>

ArchivedIds == {batch.zip[k].sid : k \in 1..Len(batch.zip)}

\* C22: the number of students that the class-teacher batch reports as
\* generated ("Reports Ready for N students!") is the number of students
\* with an entry written to the archive in that run.
C22_ReportedCount ==
    (batch.gen = "class_teacher" /\ batch.outcome = "success") =>
        batch.reported = Cardinality(ArchivedIds)

\* C28: when JPG is the only requested format, the batch reports success
\* and offers an archive only if the archive holds at least one entry, and
\* when every image conversion fails the outcome is "No reports generated".
C28_JpgOnlyOutcome ==
    (LoopEntered /\ batch.fmt = {"JPG"} /\ batch.outcome # "exception") =>
        /\ (batch.outcome = "success" \/ batch.offered) => batch.zip # <<>>
        /\ TargetIds \subseteq jpg_fails => batch.outcome = "none_generated"

\* C25: reports are generated from the Class Teacher dashboard for a grade
\* only by a user who is the class teacher of that grade (a user_assignments
\* row with that grade and subject_id = -1).
C25_OnlyClassTeacher ==
    (batch.gen = "class_teacher" /\ LoopEntered) =>
        \A k \in 1..Len(batch.targets) : is_ct(user.username, batch.targets[k].grade_id)

\* the names of the subjects configured for grade grade_id
ConfiguredNames(grade_id) ==
    {subjects[k].name : k \in {j \in 1..Len(subjects) :
        \E sc \in subject_grade_config : sc.grade_id = grade_id /\ sc.subject_id = subjects[j].id}}

\* whether the marks table holds a row of student sid for the subject named name
HasMarksRow(sid, name) ==
    \E k \in 1..Len(marks), j \in 1..Len(subjects) :
        /\ marks[k].student_id = sid
        /\ marks[k].subject_id = subjects[j].id
        /\ subjects[j].name = name

\* C26: in a class-teacher batch each student's academic table has exactly
\* one row per subject configured for the grade, in the order of the subject
\* names, whatever the subjects and marks tables hold; a configured subject
\* without a marks row of the student is there once, ungraded.
C26_OneRowPerConfiguredSubject ==
    batch.gen = "class_teacher" =>
        \A i \in 1..Len(batch.reports) :
            LET rep == batch.reports[i]
                rows == rep.pdf.rows
            IN /\ {rows[k].subject : k \in 1..Len(rows)} = ConfiguredNames(rep.grade_id)
               /\ \A k \in 1..(Len(rows) - 1) :
                     NameRank(rows[k].subject) < NameRank(rows[k + 1].subject)
               /\ \A k \in 1..Len(rows) :
                     ~HasMarksRow(rep.sid, rows[k].subject) => ~rows[k].graded

\* ---------------------------------------------------------------------
\* Marks entry properties
\* ---------------------------------------------------------------------
MarksRowsOf(student_id, subject_id) ==
    {k \in 1..Len(marks) : marks[k].student_id = student_id /\ marks[k].subject_id = subject_id}

\* C27: a (student, subject) pair for which no TE or CE score was ever
\* entered is ungraded in the marks store (no row, or a row with both scores
\* null, which the report skips) after any sequence of Save Marks
\* operations of teachers and class teachers.
C27_NeverEnteredStaysUngraded ==
    \A i \in 1..Len(students), j \in 1..Len(subjects) :
        <<students[i].id, subjects[j].id>> \notin entered =>
            \A k \in MarksRowsOf(students[i].id, subjects[j].id) :
                /\ marks[k].te_score = None
                /\ marks[k].ce_score = None
                /\ row_skipped(mapped_row([name |-> subjects[j].name,
                                           te_score |-> marks[k].te_score,
                                           ce_score |-> marks[k].ce_score]))

\* ---------------------------------------------------------------------
\* Account properties
\* ---------------------------------------------------------------------
\* C29: Change Password updates the stored password only when the entered
\* current password matches the password stored for the user in the
\* database at that moment, also after earlier changes in the same login
\* session: a password already replaced is not accepted as the current one.
C29_CurrentPasswordChecked ==
    attempt.outcome = "updated" => verify_password(attempt.stored, attempt.current)

\* ---------------------------------------------------------------------
\* Admin properties
\* ---------------------------------------------------------------------
\* C30: after any sequence of admin operations (create user, assign,
\* rename, delete) every user_assignments row refers to a username present
\* in users: deleting a user removes the user's assignments, so that a user
\* created later with the same username starts without assignments.
C30_AssignmentsHaveUsers ==
    \A ua \in user_assignments : ua.username \in usernames
====
